---- MODULE Spec2Model ----
(***************************************************************************)
(* Model of the didcomm-rs message pipeline: the Message builder, seal,    *)
(* seal_signed, routed_by and receive (src/src/messages/message.rs), with  *)
(* the crypto dispatch of src/src/crypto.                                  *)
(*                                                                         *)
(* Byte strings are modelled by what the code reads of them: a key is a    *)
(* record [id, len] (which secret it is, how many bytes it has), a wire    *)
(* string is the record of the JSON members it carries.  The build that    *)
(* is modelled is the one without the `resolve` feature (the build of      *)
(* src/tests/send_receive.rs): a recipient or sender key that is not       *)
(* passed explicitly is missing.                                           *)
(***************************************************************************)
EXTENDS Integers, Sequences, FiniteSets, TLC

VARIABLES
    msg,        \* the Message under construction (consumed by a terminal op)
    pc,         \* "build" | "sent" | "received" | "forwarded"
    call,       \* arguments of the terminal operation that consumed msg
    out,        \* Result<String> of the terminal operation
    incoming,   \* the serialized envelope handed to receive
    rcvArgs,    \* arguments of the last receive call
    rcv,        \* Result<Message> of the last receive call
    fwd,        \* the forward message whose payload a mediator passed on
    log         \* the process log (sink of trace!)

vars == <<msg, pc, call, out, incoming, rcvArgs, rcv, fwd, log>>

----------------------------------------------------------------------------
(* Bounds of the model *)

NumParties == 2     \* recipients: party p has the DID p and the key pair p
MaxTo == 2          \* longest `to` list built, longest key list passed

(* Program constants *)

KeySize == 32       \* sender private key / CEK length
DefaultSeed == 0    \* ChaCha20Rng::from_seed(Default::default())

----------------------------------------------------------------------------
(* Option and Result *)

None == [some |-> FALSE]
Some(x) == [some |-> TRUE, v |-> x]

Ok(x) == [ok |-> TRUE, v |-> x]
Err(e) == [ok |-> FALSE, err |-> e]

RECURSIVE SeqsUpTo(_, _)
SeqsUpTo(S, n) ==
    IF n = 0 THEN {<<>>}
    ELSE LET shorter == SeqsUpTo(S, n - 1)
         IN  shorter \cup {Append(s, x) : s \in {t \in shorter : Len(t) = n - 1}, x \in S}

----------------------------------------------------------------------------
(* Keys *)

Parties == 1..NumParties
Sender == NumParties + 1
Mediator == NumParties + 2
\* the ephemeral secret drawn for the i-th recipient of a seal call
Ephemeral(i) == NumParties + 2 + i

Dids == Parties
EmptyDid == 0

PrivKey(k) == [id |-> k, len |-> KeySize]
\* x25519 public key of a private key
PublicKey(priv) == [pub |-> priv.id]

\* a key of the wrong size, as b"anuhcphus" in send_receive_raw
ShortKey == [id |-> 0, len |-> 9]
\* a key that is one byte too long
LongKey(k) == [id |-> k, len |-> KeySize + 1]

PartyKeys == {PrivKey(k) : k \in Parties}
PartyPubOpts == {None} \cup {Some(PublicKey(p)) : p \in PartyKeys}

----------------------------------------------------------------------------
(* Key agreement and key wrapping (ECDH-1PU) *)

\* x25519 Diffie-Hellman: DH(a, pub(b)) = DH(b, pub(a))
DH(priv, pub) == {priv.id, pub.pub}

\* KEK of ECDH-1PU as the sender derives it: Z_e || Z_s through Concat-KDF
SenderKek(eph, senderPriv, recipientPub) ==
    [ze |-> DH(eph, recipientPub), zs |-> DH(senderPriv, recipientPub)]

\* KEK of ECDH-1PU as the recipient derives it
RecipientKek(recipientPriv, senderPub, epk) ==
    [ze |-> DH(recipientPriv, epk), zs |-> DH(recipientPriv, senderPub)]

\* authenticated key wrap: unwrapping succeeds with the wrapping KEK only
WrapKey(kek, cek) == [kek |-> kek, key |-> cek]
UnwrapKey(kek, wrapped) ==
    IF wrapped.kek = kek THEN Some(wrapped.key) ELSE None

----------------------------------------------------------------------------
(* Content encryption: CryptoAlgorithm (src/src/crypto/encryptor.rs) *)

XC20PNonce == 24
A256GCMNonce == 12
A256CBCNonce == 16

Abort == [ok |-> FALSE, err |-> "panic"]

\* the first n bytes of a byte string
Prefix(bytes, n) == [id |-> bytes.id, len |-> n]

\* check_nonce that lets every nonce pass
check_nonce_passing(nonce, expected_len) == Ok(TRUE)

check_nonce(nonce, expected_len) ==
    IF nonce.len < expected_len THEN Err("PlugCryptoFailure") ELSE Ok(TRUE)

\* what an AEAD seals: opened only by the same algorithm, key, nonce and aad
Sealed(alg, nonce, key, message, aad) ==
    [alg |-> alg, nonce |-> nonce, key |-> key, message |-> message, aad |-> aad]

\* encryptor that hands the whole nonce to A256GCM
encryptor_whole_nonce(alg, nonce, key, message, aad) ==
    CASE alg = "XC20P" ->
            IF ~check_nonce(nonce, XC20PNonce).ok THEN check_nonce(nonce, XC20PNonce)
            ELSE IF nonce.len # XC20PNonce \/ key.len # KeySize THEN Abort
            ELSE Ok(Sealed(alg, nonce, key, message, aad))
      [] alg = "A256GCM" ->
            IF ~check_nonce(nonce, A256GCMNonce).ok THEN check_nonce(nonce, A256GCMNonce)
            ELSE IF key.len # KeySize THEN Abort
            ELSE Ok(Sealed(alg, nonce, key, message, aad))
      [] alg = "A256CBC" ->
            IF key.len # KeySize THEN Err("InvalidKeySize")
            ELSE IF nonce.len # A256CBCNonce THEN Err("InvalidKeySize")
            ELSE Ok(Sealed(alg, nonce, key, message, None))

encryptor(alg, nonce, key, message, aad) ==
    CASE alg = "XC20P" ->
            IF ~check_nonce(nonce, XC20PNonce).ok THEN check_nonce(nonce, XC20PNonce)
            ELSE IF nonce.len # XC20PNonce \/ key.len # KeySize THEN Abort
            ELSE Ok(Sealed(alg, nonce, key, message, aad))
      [] alg = "A256GCM" ->
            IF ~check_nonce(nonce, A256GCMNonce).ok THEN check_nonce(nonce, A256GCMNonce)
            ELSE IF key.len # KeySize THEN Abort
            ELSE Ok(Sealed(alg, Prefix(nonce, A256GCMNonce), key, message, aad))
      [] alg = "A256CBC" ->
            IF key.len # KeySize THEN Err("InvalidKeySize")
            ELSE IF nonce.len # A256CBCNonce THEN Err("InvalidKeySize")
            ELSE Ok(Sealed(alg, nonce, key, message, None))

\* decrypter that hands the whole nonce to A256GCM
decrypter_whole_nonce(alg, nonce, key, message, aad) ==
    CASE alg = "XC20P" ->
            IF ~check_nonce(nonce, XC20PNonce).ok THEN check_nonce(nonce, XC20PNonce)
            ELSE IF nonce.len # XC20PNonce \/ key.len # KeySize THEN Abort
            ELSE IF message = Sealed(alg, nonce, key, message.message, aad)
                 THEN Ok(message.message)
                 ELSE Err("Generic")
      [] alg = "A256GCM" ->
            IF ~check_nonce(nonce, A256GCMNonce).ok THEN check_nonce(nonce, A256GCMNonce)
            ELSE IF key.len # KeySize THEN Abort
            ELSE IF message = Sealed(alg, nonce, key, message.message, aad)
                 THEN Ok(message.message)
                 ELSE Err("Generic")
      [] alg = "A256CBC" -> Abort

decrypter(alg, nonce, key, message, aad) ==
    CASE alg = "XC20P" ->
            IF ~check_nonce(nonce, XC20PNonce).ok THEN check_nonce(nonce, XC20PNonce)
            ELSE IF nonce.len # XC20PNonce \/ key.len # KeySize THEN Abort
            ELSE IF message = Sealed(alg, nonce, key, message.message, aad)
                 THEN Ok(message.message)
                 ELSE Err("Generic")
      [] alg = "A256GCM" ->
            IF ~check_nonce(nonce, A256GCMNonce).ok THEN check_nonce(nonce, A256GCMNonce)
            ELSE IF key.len # KeySize THEN Abort
            ELSE IF message = Sealed(alg, Prefix(nonce, A256GCMNonce), key, message.message, aad)
                 THEN Ok(message.message)
                 ELSE Err("Generic")
      [] alg = "A256CBC" -> Abort

\* the parsing with the two names exchanged for A256CBC and A256GCM
CryptoAlgorithmTryFrom_cbc(name) ==
    CASE name = "ECDH-1PU+A256KW" -> Ok("A256CBC")
      [] name = "ECDH-1PU+XC20PKW" -> Ok("A256GCM")
      [] OTHER -> Err("JweParseError")

CryptoAlgorithmTryFrom(name) ==
    CASE name = "ECDH-1PU+A256KW" -> Ok("A256GCM")
      [] name = "ECDH-1PU+XC20PKW" -> Ok("XC20P")
      [] OTHER -> Err("JweParseError")

\* JwmHeader::as_encrypted: the alg / enc names of a content algorithm
KeyWrapName(alg) ==
    IF alg = "XC20P" THEN "ECDH-1PU+XC20PKW" ELSE "ECDH-1PU+A256KW"

get_crypter_from_header(m) ==
    IF m.alg.some THEN CryptoAlgorithmTryFrom(m.alg.v) ELSE Err("JweParseError")

\* content algorithms offered to the builder
CryptoAlgorithms == {"XC20P", "A256GCM"}
\* the variants of enum CryptoAlgorithm
AllCryptoAlgorithms == {"XC20P", "A256GCM", "A256CBC"}

----------------------------------------------------------------------------
(* Signatures: SignatureAlgorithm (src/src/crypto/signer.rs) *)

SignatureAlgorithms == {"EdDSA", "ES256", "ES256K"}

SignKey(k) == [id |-> k, len |-> KeySize]
VerifyingKey(sk) == [vk |-> sk.id, len |-> KeySize]

\* the sender's signing key, and a verifying key that matches no signing key
SenderSignKey == SignKey(Sender)
WrongVerifyingKey == VerifyingKey(SignKey(Mediator))
VerifyingKeyOpts == {None, Some(VerifyingKey(SenderSignKey)), Some(WrongVerifyingKey)}

\* signer whose signature does not depend on the key
signer_keyless(alg, key, message) ==
    IF key.len # KeySize THEN Err("InvalidKeySize")
    ELSE Ok([alg |-> alg, by |-> 0, message |-> message])

signer(alg, key, message) ==
    IF key.len # KeySize THEN Err("InvalidKeySize")
    ELSE Ok([alg |-> alg, by |-> key.id, message |-> message])

\* validator that reports every signature as valid
validator_accepting(alg, key, message, signature) ==
    IF alg = "EdDSA" /\ key.len # KeySize THEN Err("InvalidKeySize") ELSE Ok(TRUE)

validator(alg, key, message, signature) ==
    IF alg = "EdDSA" /\ key.len # KeySize THEN Err("InvalidKeySize")
    ELSE Ok(signature = [alg |-> alg, by |-> key.vk, message |-> message])

SignatureAlgorithmTryFrom(name) ==
    IF name \in SignatureAlgorithms THEN Ok(name) ELSE Err("JwsParseError")

----------------------------------------------------------------------------
(* The Message and its builder (src/src/messages/message.rs) *)

\* serde_json values of a body: an application object, a JWS, a Mediated
JsonBody(b) == [t |-> "json", v |-> b]
JwsBody(jws) == [t |-> "jws", jws |-> jws]
MediatedBody(next, payload) == [t |-> "mediated", next |-> next, payload |-> payload]

\* the default body {} and the body an application sets
EmptyBody == JsonBody("{}")
Bodies == {JsonBody("{\"foo\":\"bar\"}")}

\* Message::new(); DidCommHeader::new() starts `to` with one empty string
\* (create_and_send_without_resolving_dids seals a message with no `to` call
\* for one recipient key)
new ==
    [typ |-> "DidCommRaw", alg |-> None, enc |-> None, kid |-> None,
     from |-> None, to |-> <<EmptyDid>>, recipients |-> None,
     body |-> EmptyBody, attachments |-> <<>>,
     serialize_flat_jwe |-> FALSE, serialize_flat_jws |-> FALSE]

\* the `while let Some(a) = position(empty) { remove(a) }` loop of `to`
RECURSIVE RemoveEmpty(_)
RemoveEmpty(s) ==
    IF s = <<>> THEN <<>>
    ELSE IF Head(s) = EmptyDid THEN RemoveEmpty(Tail(s))
    ELSE <<Head(s)>> \o RemoveEmpty(Tail(s))

\* `to` that replaces the list by its arguments
to_replacing(m, dids) == [m EXCEPT !.to = RemoveEmpty(dids)]

to(m, dids) == [m EXCEPT !.to = RemoveEmpty(m.to \o dids)]

from(m, did) == [m EXCEPT !.from = Some(did)]

body(m, b) == [m EXCEPT !.body = b]

typ(m, t) == [m EXCEPT !.typ = t]

kid(m, k) == [m EXCEPT !.kid = Some(k)]

\* kid forms: base64url of an encryption key (as_jwe), hex of a verifying key
B64Kid(pub) == [form |-> "b64", key |-> pub]
HexKid(vk) == [form |-> "hex", key |-> vk]

as_jwe(m, alg, recipient_public_key) ==
    LET h == [m EXCEPT !.alg = Some(KeyWrapName(alg)), !.enc = Some(alg)]
    IN  IF recipient_public_key.some
        THEN [h EXCEPT !.kid = Some(B64Kid(recipient_public_key.v))]
        ELSE h

as_flat_jwe(m, alg, recipient_public_key) ==
    as_jwe([m EXCEPT !.serialize_flat_jwe = TRUE], alg, recipient_public_key)

\* as_jws that also promotes the typ of the message to the signed type
as_jws_typed(m, alg) == [m EXCEPT !.alg = Some(alg), !.typ = "DidCommJws"]

as_jws(m, alg) == [m EXCEPT !.alg = Some(alg)]

\* as_flat_jws that leaves the flag alone
as_flat_jws_unflagged(m, alg) == as_jws(m, alg)

as_flat_jws(m, alg) == as_jws([m EXCEPT !.serialize_flat_jws = TRUE], alg)

\* Serialize that writes `attachments` whether or not there are any
Serialize_all_members(m) ==
    [kind |-> "jwm", typ |-> m.typ, alg |-> m.alg, enc |-> m.enc, kid |-> m.kid,
     from |-> m.from, to |-> m.to, recipients |-> m.recipients, body |-> m.body,
     attachments |-> Some(m.attachments)]

\* serde: the two flags are #[serde(skip)]; `recipients` is skipped when
\* None and `attachments` when empty (an Option that is None is a member
\* that is not written); every other member is written
Serialize(m) ==
    [kind |-> "jwm", typ |-> m.typ, alg |-> m.alg, enc |-> m.enc, kid |-> m.kid,
     from |-> m.from, to |-> m.to, recipients |-> m.recipients, body |-> m.body,
     attachments |-> IF m.attachments = <<>> THEN None ELSE Some(m.attachments)]

\* Deserialize that does not read `from`
Deserialize_without_from(w) ==
    [typ |-> w.typ, alg |-> w.alg, enc |-> w.enc, kid |-> w.kid,
     from |-> None, to |-> w.to, recipients |-> w.recipients, body |-> w.body,
     attachments |-> IF w.attachments.some THEN w.attachments.v ELSE <<>>,
     serialize_flat_jwe |-> FALSE, serialize_flat_jws |-> FALSE]

\* serde: the flags are ignored, missing `attachments` is the default Vec
Deserialize(w) ==
    [typ |-> w.typ, alg |-> w.alg, enc |-> w.enc, kid |-> w.kid,
     from |-> w.from, to |-> w.to, recipients |-> w.recipients, body |-> w.body,
     attachments |-> IF w.attachments.some THEN w.attachments.v ELSE <<>>,
     serialize_flat_jwe |-> FALSE, serialize_flat_jws |-> FALSE]

as_raw_json(m) == Ok(Serialize(m))

----------------------------------------------------------------------------
(* JWE: per-recipient key wrapping, content encryption, opening *)

\* rng.fill_bytes(&mut cek) of a ChaCha20Rng seeded with `seed`
FillBytes(seed) == [id |-> 1000 + seed, len |-> KeySize]

\* Jwe::generate_iv(): a nonce of the XC20P size
GenerateIv == [id |-> 1, len |-> XC20PNonce]

\* helpers::encrypt_cek: header and encrypted key of one recipient
encrypt_cek(m, sender_private_key, dest, cek, public_key, eph) ==
    IF ~get_crypter_from_header(m).ok THEN get_crypter_from_header(m)
    ELSE IF ~public_key.some THEN Err("Generic: missing recipient key")
    ELSE Ok([header |-> [kid |-> dest, epk |-> PublicKey(PrivKey(eph))],
             encrypted_key |->
                 WrapKey(SenderKek(PrivKey(eph), sender_private_key, public_key.v),
                         cek)])

\* Message::encrypt: the JWE of the serialized message under `key`
Message_encrypt(m, alg, key) ==
    LET protected ==
            [typ |-> IF m.typ = "DidCommForward" THEN m.typ ELSE "DidCommJwe",
             alg |-> m.alg, enc |-> m.enc, kid |-> m.kid, skid |-> m.from]
        sealed == encryptor(alg, GenerateIv, key, Serialize(m), protected)
    IN  IF ~sealed.ok THEN sealed
        ELSE Ok([kind |-> "jwe",
                 protected |-> protected,
                 recipients |-> IF m.serialize_flat_jwe THEN None ELSE m.recipients,
                 flat |-> IF m.serialize_flat_jwe /\ m.recipients.some
                          THEN Some(m.recipients.v[1]) ELSE None,
                 iv |-> GenerateIv,
                 ciphertext |-> sealed.v])

\* Message::decrypt
Message_decrypt(jwe, alg, key) ==
    LET opened == decrypter(alg, jwe.iv, key, jwe.ciphertext, jwe.protected)
    IN  IF opened.ok THEN Ok(Deserialize(opened.v))
        ELSE IF opened = Abort THEN Abort
        ELSE Err("PlugCryptoFailure")

\* the recipient entries of a JWE, general or flattened
JweRecipients(jwe) ==
    IF jwe.recipients.some THEN jwe.recipients.v
    ELSE IF jwe.flat.some THEN <<jwe.flat.v>>
    ELSE <<>>

\* helpers::receive_jwe: unwrap the CEK with the first entry that opens
receive_jwe(jwe, recipient_private_key, sender_public_key) ==
    IF jwe.kind # "jwe" THEN Err("JweParseError")
    ELSE IF ~jwe.protected.alg.some THEN Err("JweParseError")
    ELSE IF ~sender_public_key.some THEN Err("Generic: missing sender key")
    ELSE IF ~CryptoAlgorithmTryFrom(jwe.protected.alg.v).ok
         THEN CryptoAlgorithmTryFrom(jwe.protected.alg.v)
    ELSE
        LET rs == JweRecipients(jwe)
            key(i) == UnwrapKey(RecipientKek(recipient_private_key,
                                             sender_public_key.v,
                                             rs[i].header.epk),
                                rs[i].encrypted_key)
            opens == {i \in DOMAIN rs : key(i).some}
        IN  IF opens = {} THEN Err("JweParseError")
            ELSE LET first == CHOOSE i \in opens : \A j \in opens : i <= j
                     m == Message_decrypt(jwe,
                                          CryptoAlgorithmTryFrom(jwe.protected.alg.v).v,
                                          key(first).v)
                 IN  IF m.ok THEN Ok(Serialize(m.v)) ELSE m

----------------------------------------------------------------------------
(* JWS: sign and verify *)

\* Message::sign
Message_sign(m, key) ==
    IF ~m.alg.some \/ ~SignatureAlgorithmTryFrom(m.alg.v).ok THEN Err("JwsParseError")
    ELSE
        LET protected == [typ |-> "DidCommJws", alg |-> m.alg, kid |-> m.kid]
            payload == Serialize(m)
            sig == signer(m.alg.v, key, <<protected, payload>>)
        IN  IF ~sig.ok THEN sig
            ELSE IF m.serialize_flat_jws
            THEN Ok([kind |-> "jws", payload |-> payload,
                     protected |-> Some(protected), signature |-> Some(sig.v),
                     signatures |-> None])
            ELSE Ok([kind |-> "jws", payload |-> payload,
                     protected |-> None, signature |-> None,
                     signatures |->
                        Some(<<[protected |-> protected, signature |-> sig.v]>>)])

\* the {protected, signature} entries of a JWS, general or flattened
JwsSignatures(jws) ==
    IF jws.signatures.some THEN jws.signatures.v
    ELSE IF jws.signature.some /\ jws.protected.some
         THEN <<[protected |-> jws.protected.v, signature |-> jws.signature.v]>>
    ELSE <<>>

\* Message::verify
Message_verify(jws, key) ==
    IF jws.kind # "jws" \/ JwsSignatures(jws) = <<>> THEN Err("JwsParseError")
    ELSE
        LET entry == JwsSignatures(jws)[1]
        IN  IF ~entry.protected.alg.some
               \/ ~SignatureAlgorithmTryFrom(entry.protected.alg.v).ok
            THEN Err("JwsParseError")
            ELSE
                LET valid == validator(entry.protected.alg.v, key,
                                       <<entry.protected, jws.payload>>,
                                       entry.signature)
                IN  IF valid.ok /\ valid.v THEN Ok(Deserialize(jws.payload))
                    ELSE Err("JwsParseError")

\* helpers::receive_jws: the JWS is the input itself or the body of a message
\* of the signed type; without a key the header's kid is read as the key
receive_jws(w, signing_sender_public_key) ==
    LET jws == IF w.kind = "jws" THEN Some(w)
               ELSE IF w.body.t = "jws" THEN Some(w.body.jws)
               ELSE None
        header == IF jws.some /\ JwsSignatures(jws.v) # <<>>
                  THEN Some(JwsSignatures(jws.v)[1].protected) ELSE None
        key == IF signing_sender_public_key.some THEN signing_sender_public_key
               ELSE IF header.some /\ header.v.kid.some /\ header.v.kid.v.form = "hex"
                    THEN Some(header.v.kid.v.key)
               ELSE None
    IN  IF ~jws.some \/ ~key.some THEN Err("JwsParseError")
        ELSE LET m == Message_verify(jws.v, key.v)
             IN  IF m.ok THEN Ok(Serialize(m.v)) ELSE m

\* helpers::get_message_type: an `iv` member makes a JWE, a `signature(s)`
\* member a JWS, anything else is read as a message and its typ taken
get_message_type(w) ==
    IF w.kind = "jwe" THEN "DidCommJwe"
    ELSE IF w.kind = "jws" THEN "DidCommJws"
    ELSE w.typ

----------------------------------------------------------------------------
(* IV extraction: Message::get_iv (message.rs 545-571) *)

IvSize == 24        \* t.len() != 24

\* A JSON string value is [t |-> "string", id, chars, len]: which text it is,
\* its characters, its UTF-8 bytes.
\* A text read as JSON is [kind, iv, dotted]: an object with or without a
\* top-level `iv`, a value that is not an object, or no JSON at all; `dotted`
\* tells whether the character '.' occurs anywhere in the text.

\* as_str.find('.'): the base64url alphabet has no '.', so in a compact form
\* the first '.' ends the header; in regular JSON it is wherever the text
\* has one
find_dot(received) ==
    IF received.form = "compact" THEN Some("header")
    ELSE IF received.json.dotted THEN Some("text")
    ELSE None

\* base64_url::decode(&as_str[..header_end]): the header of a compact form
\* decodes to its JSON; the start of a JSON text has characters outside the
\* alphabet
base64_url_decode(received) ==
    IF received.form = "compact" THEN Ok(received.json)
    ELSE Err("Generic: base64 decode")

serde_json_from_str(json) ==
    IF json.kind = "invalid" THEN Err("SerializationError") ELSE Ok(json)

get_iv(received) ==
    LET text == IF find_dot(received).some THEN base64_url_decode(received)
                ELSE Ok(received.json)
        json == IF text.ok THEN serde_json_from_str(text.v) ELSE text
        \* json.get("iv"): None for a value that is not an object
        iv == IF json.v.kind = "object" THEN json.v.iv ELSE None
    IN  IF ~json.ok THEN json
        ELSE IF ~iv.some THEN Err("Generic: iv is not found in JOSE header")
        ELSE IF iv.v.t # "string" THEN Err("Generic: wrong nonce format")
        ELSE IF iv.v.len # IvSize THEN Err("Generic: IV [nonce] size is incorrect")
        ELSE Ok([id |-> iv.v.id, len |-> iv.v.len])

----------------------------------------------------------------------------
(* Terminal operations.  Each yields [res |-> Result<String>, log |-> the *)
(* lines it wrote to the process log].                                    *)

Done(res, logged) == [res |-> res, log |-> logged]

\* seal_key_size with the comparison weakened: only a longer key is refused
seal_key_size_at_most(sender_private_key) ==
    IF sender_private_key.len > KeySize THEN Err("InvalidKeySize") ELSE Ok(TRUE)

\* seal, line 490: the size of the sender key
seal_key_size(sender_private_key) ==
    IF sender_private_key.len # KeySize THEN Err("InvalidKeySize") ELSE Ok(TRUE)

\* seal_public_keys with the comparison weakened: a longer key list passes
seal_public_keys_at_least(m, recipient_public_keys) ==
    IF recipient_public_keys.some
    THEN IF Len(recipient_public_keys.v) < Len(m.to)
         THEN Err("Generic: to and recipient_public_keys must have same length")
         ELSE Ok(recipient_public_keys.v)
    ELSE Ok([i \in 1..Len(m.to) |-> None])

\* seal, lines 493-503: the recipient keys, one per `to` entry
seal_public_keys(m, recipient_public_keys) ==
    IF recipient_public_keys.some
    THEN IF Len(recipient_public_keys.v) # Len(m.to)
         THEN Err("Generic: to and recipient_public_keys must have same length")
         ELSE Ok(recipient_public_keys.v)
    ELSE Ok([i \in 1..Len(m.to) |-> None])

\* seal, lines 506-508: the content encryption key
seal_cek == FillBytes(DefaultSeed)

\* seal, line 509: trace!("sealing message with shared_key: ...")
seal_trace(cek) == <<[line |-> "sealing message with shared_key", shared_key |-> cek]>>

\* seal_check_to without the flat JWE branch
seal_check_to_any_flat(m) ==
    IF Len(m.to) = 0 THEN Err("NoJweRecipient") ELSE Ok(TRUE)

\* seal, lines 511-517: `to` must not be empty, flat JWE has one `to`
seal_check_to(m) ==
    IF Len(m.to) = 0 THEN Err("NoJweRecipient")
    ELSE IF m.serialize_flat_jwe /\ Len(m.to) > 1
         THEN Err("Generic: flat JWE serialization only supports a single to")
         ELSE Ok(TRUE)

\* seal_recipients wrapping for the first key only
seal_recipients_first_key(m, sender_private_key, cek, public_keys) ==
    LET rv(i) == encrypt_cek(m, sender_private_key, m.to[i], cek, public_keys[1],
                             Ephemeral(i))
        failed == {i \in 1..Len(m.to) : ~rv(i).ok}
    IN  IF failed # {}
        THEN rv(CHOOSE i \in failed : \A j \in failed : i <= j)
        ELSE Ok([i \in 1..Len(m.to) |-> rv(i).v])

\* seal_recipients drawing a key of its own for every recipient
seal_recipients_own_cek(m, sender_private_key, cek, public_keys) ==
    LET rv(i) == encrypt_cek(m, sender_private_key, m.to[i],
                             FillBytes(DefaultSeed + i), public_keys[i],
                             Ephemeral(i))
        failed == {i \in 1..Len(m.to) : ~rv(i).ok}
    IN  IF failed # {}
        THEN rv(CHOOSE i \in failed : \A j \in failed : i <= j)
        ELSE Ok([i \in 1..Len(m.to) |-> rv(i).v])

\* seal, lines 519-530: one Recipient per `to` entry, in order
seal_recipients(m, sender_private_key, cek, public_keys) ==
    LET rv(i) == encrypt_cek(m, sender_private_key, m.to[i], cek, public_keys[i],
                             Ephemeral(i))
        failed == {i \in 1..Len(m.to) : ~rv(i).ok}
    IN  IF failed # {}
        THEN rv(CHOOSE i \in failed : \A j \in failed : i <= j)
        ELSE Ok([i \in 1..Len(m.to) |-> rv(i).v])

\* seal, lines 531-534: encrypt the message, recipients set, under the CEK
seal_encrypt(m, recipients, cek) ==
    LET sealed == [m EXCEPT !.recipients = Some(recipients)]
        alg == get_crypter_from_header(sealed)
    IN  IF ~alg.ok THEN alg ELSE Message_encrypt(sealed, alg.v, cek)

seal(m, sender_private_key, recipient_public_keys) ==
    IF ~seal_key_size(sender_private_key).ok
    THEN Done(seal_key_size(sender_private_key), <<>>)
    ELSE IF ~seal_public_keys(m, recipient_public_keys).ok
    THEN Done(seal_public_keys(m, recipient_public_keys), <<>>)
    ELSE
        LET public_keys == seal_public_keys(m, recipient_public_keys).v
            cek == seal_cek
            logged == seal_trace(cek)
            recipients == seal_recipients(m, sender_private_key, cek, public_keys)
        IN  IF ~seal_check_to(m).ok THEN Done(seal_check_to(m), logged)
            ELSE IF ~recipients.ok THEN Done(recipients, logged)
            ELSE Done(seal_encrypt(m, recipients.v, cek), logged)

\* seal_signed building the outer message anew, with the algorithm and `to`
seal_signed_fresh_outer(m, encryption_sender_private_key, encryption_recipient_public_keys, signing_algorithm, signing_sender_private_key) ==
    LET signed == Message_sign(as_jws(m, signing_algorithm), signing_sender_private_key)
        outer == [new EXCEPT !.alg = m.alg, !.enc = m.enc, !.to = m.to,
                             !.serialize_flat_jwe = m.serialize_flat_jwe]
    IN  IF ~signed.ok THEN Done(signed, <<>>)
        ELSE seal(typ(body(outer, JwsBody(signed.v)), "DidCommJws"),
                  encryption_sender_private_key, encryption_recipient_public_keys)

\* seal_signed leaving the body of the outer message as it was
seal_signed_keeps_body(m, encryption_sender_private_key, encryption_recipient_public_keys, signing_algorithm, signing_sender_private_key) ==
    LET signed == Message_sign(as_jws(m, signing_algorithm), signing_sender_private_key)
    IN  IF ~signed.ok THEN Done(signed, <<>>)
        ELSE seal(typ(m, "DidCommJws"),
                  encryption_sender_private_key, encryption_recipient_public_keys)

seal_signed(m, encryption_sender_private_key, encryption_recipient_public_keys, signing_algorithm, signing_sender_private_key) ==
    LET signed == Message_sign(as_jws(m, signing_algorithm), signing_sender_private_key)
    IN  IF ~signed.ok THEN Done(signed, <<>>)
        ELSE seal(typ(body(m, JwsBody(signed.v)), "DidCommJws"),
                  encryption_sender_private_key, encryption_recipient_public_keys)

\* routed_by_mediated naming the last recipient as next hop
routed_by_mediated_last(m, payload) == MediatedBody(m.to[Len(m.to)], payload)

\* routed_by, lines 463-467: Mediated::new(to[0]).with_payload(inner JWE)
routed_by_mediated(m, payload) == MediatedBody(m.to[1], payload)

\* routed_by_forward that leaves the typ of the wrapper as it is built
routed_by_forward_untyped(sender, alg, mediator_did, mediator_public_key, mediated) ==
    body(as_jwe(from(to(new, <<mediator_did>>), sender), alg, mediator_public_key),
         mediated)

\* routed_by, lines 468-473: the message that carries the Mediated body
routed_by_forward(sender, alg, mediator_did, mediator_public_key, mediated) ==
    body(typ(as_jwe(from(to(new, <<mediator_did>>), sender), alg, mediator_public_key),
             "DidCommForward"),
         mediated)

routed_by(m, sender_private_key, recipient_public_keys, mediator_did, mediator_public_key) ==
    LET sender == IF m.from.some THEN m.from.v ELSE EmptyDid
        alg == get_crypter_from_header(m)
        inner == seal(m, sender_private_key, recipient_public_keys)
    IN  IF ~alg.ok THEN Done(alg, <<>>)
        ELSE IF Len(m.to) = 0 THEN Done(Abort, <<>>)
        ELSE IF ~inner.res.ok THEN inner
        ELSE
            LET forward ==
                    routed_by_forward(sender, alg.v, mediator_did, mediator_public_key,
                                      routed_by_mediated(m, inner.res.v))
                outer == seal(forward, sender_private_key,
                              Some(<<mediator_public_key>>))
            IN  Done(outer.res, inner.log \o outer.log)

\* receive, lines 418-427
receive_open(w, encryption_recipient_private_key, encryption_sender_public_key) ==
    IF get_message_type(w) = "DidCommJwe"
    THEN IF ~encryption_recipient_private_key.some
         THEN Err("Generic: missing encryption recipient private key")
         ELSE receive_jwe(w, encryption_recipient_private_key.v,
                          encryption_sender_public_key)
    ELSE Ok(w)

\* receive, lines 429-431
receive_verify(w, signing_sender_public_key) ==
    IF get_message_type(w) = "DidCommJws"
    THEN receive_jws(w, signing_sender_public_key)
    ELSE Ok(w)

\* receive, line 433: serde_json::from_str::<Message>
receive_parse(w) ==
    IF w.kind = "jwm" THEN Ok(Deserialize(w)) ELSE Err("SerializationError")

\* receive that verifies before it opens
receive_verify_first(w, encryption_recipient_private_key, encryption_sender_public_key, signing_sender_public_key) ==
    LET verified == receive_verify(w, signing_sender_public_key)
    IN  IF ~verified.ok THEN verified
        ELSE LET opened == receive_open(verified.v, encryption_recipient_private_key,
                                        encryption_sender_public_key)
             IN  IF ~opened.ok THEN opened ELSE receive_parse(opened.v)

\* receive re-entering itself on the payload of a forward message
receive_reentering(w, encryption_recipient_private_key, encryption_sender_public_key, signing_sender_public_key) ==
    LET opened == receive_open(w, encryption_recipient_private_key,
                               encryption_sender_public_key)
        inner == IF opened.ok /\ opened.v.kind = "jwm" /\ opened.v.body.t = "mediated"
                 THEN receive_open(opened.v.body.payload,
                                   encryption_recipient_private_key,
                                   encryption_sender_public_key)
                 ELSE opened
    IN  IF ~inner.ok THEN inner
        ELSE LET verified == receive_verify(inner.v, signing_sender_public_key)
             IN  IF ~verified.ok THEN verified ELSE receive_parse(verified.v)

receive(w, encryption_recipient_private_key, encryption_sender_public_key, signing_sender_public_key) ==
    LET opened == receive_open(w, encryption_recipient_private_key,
                               encryption_sender_public_key)
    IN  IF ~opened.ok THEN opened
        ELSE LET verified == receive_verify(opened.v, signing_sender_public_key)
             IN  IF ~verified.ok THEN verified ELSE receive_parse(verified.v)

----------------------------------------------------------------------------
(* The state machine: build a message, consume it, receive the envelope *)

NoCall == [op |-> "none"]
NoResult == Err("not called")
NoWire == [kind |-> "none"]

Init ==
    /\ msg = new
    /\ pc = "build"
    /\ call = NoCall
    /\ out = NoResult
    /\ incoming = NoWire
    /\ rcvArgs = NoCall
    /\ rcv = NoResult
    /\ fwd = None
    /\ log = <<>>

unsent == <<call, out, incoming, rcvArgs, rcv, fwd, log>>

\* inputs of the operations
ToArgs == SeqsUpTo(Dids \cup {EmptyDid}, MaxTo)
KeyLists == {None} \cup {Some(l) : l \in SeqsUpTo(PartyPubOpts, MaxTo)}
SenderKeys == {PrivKey(Sender), ShortKey, LongKey(Sender)}
SigningKeys == {SenderSignKey, ShortKey}
MediatorPubOpts == {None, Some(PublicKey(PrivKey(Mediator)))}
RecipientPrivOpts == {None} \cup {Some(PrivKey(k)) : k \in Parties \cup {Mediator}}
SenderPubOpts ==
    {None, Some(PublicKey(PrivKey(Sender))), Some(PublicKey(PrivKey(Mediator)))}
KidArgs == {HexKid(VerifyingKey(SenderSignKey)), HexKid(WrongVerifyingKey)}
VerifyingKeys == {VerifyingKey(SenderSignKey), WrongVerifyingKey}
MessageTypes == {"DidCommRaw", "DidCommJws", "DidCommJwe", "DidCommForward"}
CekOpts == {FillBytes(DefaultSeed), FillBytes(DefaultSeed + 1)}
SignerKeys == {SignKey(k) : k \in Parties \cup {Sender}} \cup {ShortKey}
ValidatorKeys == {VerifyingKey(SignKey(k)) : k \in Parties \cup {Sender}}
SignedMessages ==
    {Serialize(new), Serialize(to(new, <<1>>))} \cup {Serialize(body(new, b)) : b \in Bodies}

To ==
    /\ pc = "build"
    /\ \E dids \in ToArgs :
        /\ Len(to(msg, dids).to) <= MaxTo
        /\ msg' = to(msg, dids)
    /\ UNCHANGED <<pc, unsent>>

From ==
    /\ pc = "build"
    /\ msg' = from(msg, Sender)
    /\ UNCHANGED <<pc, unsent>>

Body ==
    /\ pc = "build"
    /\ \E b \in Bodies : msg' = body(msg, b)
    /\ UNCHANGED <<pc, unsent>>

AsJwe ==
    /\ pc = "build"
    /\ \E alg \in CryptoAlgorithms, key \in {None, Some(PublicKey(PrivKey(1)))} :
        msg' = as_jwe(msg, alg, key)
    /\ UNCHANGED <<pc, unsent>>

AsFlatJwe ==
    /\ pc = "build"
    /\ \E alg \in CryptoAlgorithms, key \in {None, Some(PublicKey(PrivKey(1)))} :
        msg' = as_flat_jwe(msg, alg, key)
    /\ UNCHANGED <<pc, unsent>>

Kid ==
    /\ pc = "build"
    /\ \E k \in KidArgs : msg' = kid(msg, k)
    /\ UNCHANGED <<pc, unsent>>

Typ ==
    /\ pc = "build"
    /\ \E t \in MessageTypes : msg' = typ(msg, t)
    /\ UNCHANGED <<pc, unsent>>

AsJws ==
    /\ pc = "build"
    /\ \E alg \in SignatureAlgorithms : msg' = as_jws(msg, alg)
    /\ UNCHANGED <<pc, unsent>>

AsFlatJws ==
    /\ pc = "build"
    /\ \E alg \in SignatureAlgorithms : msg' = as_flat_jws(msg, alg)
    /\ UNCHANGED <<pc, unsent>>

\* a terminal operation consumed msg and returned r
Sent(args, r) ==
    /\ pc' = "sent"
    /\ call' = args
    /\ out' = r.res
    /\ incoming' = IF r.res.ok THEN r.res.v ELSE incoming
    /\ log' = log \o r.log
    /\ UNCHANGED <<msg, rcvArgs, rcv, fwd>>

Seal ==
    /\ pc = "build"
    /\ \E sk \in SenderKeys, keys \in KeyLists :
        Sent([op |-> "seal", sender_private_key |-> sk,
              recipient_public_keys |-> keys],
             seal(msg, sk, keys))

SealSigned ==
    /\ pc = "build"
    /\ \E sk \in SenderKeys, keys \in KeyLists,
          alg \in SignatureAlgorithms, signing \in SigningKeys :
        Sent([op |-> "seal_signed", sender_private_key |-> sk,
              recipient_public_keys |-> keys,
              signing_algorithm |-> alg, signing_sender_private_key |-> signing],
             seal_signed(msg, sk, keys, alg, signing))

RoutedBy ==
    /\ pc = "build"
    /\ \E sk \in SenderKeys, keys \in KeyLists, mediator_key \in MediatorPubOpts :
        Sent([op |-> "routed_by", sender_private_key |-> sk,
              recipient_public_keys |-> keys,
              mediator_did |-> Mediator, mediator_public_key |-> mediator_key],
             routed_by(msg, sk, keys, Mediator, mediator_key))

Receive ==
    /\ pc \in {"sent", "forwarded"}
    /\ out.ok
    /\ \E priv \in RecipientPrivOpts, pub \in SenderPubOpts, vk \in VerifyingKeyOpts :
        /\ rcvArgs' = [op |-> "receive", incoming |-> incoming,
                       encryption_recipient_private_key |-> priv,
                       encryption_sender_public_key |-> pub,
                       signing_sender_public_key |-> vk]
        /\ rcv' = receive(incoming, priv, pub, vk)
    /\ pc' = "received"
    /\ UNCHANGED <<msg, call, out, incoming, fwd, log>>

AsRawJson ==
    /\ pc = "build"
    /\ Sent([op |-> "as_raw_json"], Done(as_raw_json(msg), <<>>))

\* Message::sign with the signer of the algorithm named in the header
Sign ==
    /\ pc = "build"
    /\ \E signing \in SigningKeys :
        Sent([op |-> "sign", signing_sender_private_key |-> signing],
             Done(Message_sign(msg, signing), <<>>))

\* Message::verify on the envelope
Verify ==
    /\ pc = "sent"
    /\ out.ok
    /\ \E vk \in VerifyingKeys :
        /\ rcvArgs' = [op |-> "verify", incoming |-> incoming, key |-> vk]
        /\ rcv' = Message_verify(incoming, vk)
    /\ pc' = "received"
    /\ UNCHANGED <<msg, call, out, incoming, fwd, log>>

\* Message::encrypt with the encryptor of `alg` under a content key
Encrypt ==
    /\ pc = "build"
    /\ \E alg \in CryptoAlgorithms, key \in CekOpts :
        Sent([op |-> "encrypt", alg |-> alg, key |-> key],
             Done(Message_encrypt(msg, alg, key), <<>>))

\* Message::decrypt with the decrypter of `alg` under a content key
Decrypt ==
    /\ pc = "sent"
    /\ out.ok
    /\ \E alg \in CryptoAlgorithms, key \in CekOpts :
        /\ rcvArgs' = [op |-> "decrypt", incoming |-> incoming,
                       alg |-> alg, key |-> key]
        /\ rcv' = Message_decrypt(incoming, alg, key)
    /\ pc' = "received"
    /\ UNCHANGED <<msg, call, out, incoming, fwd, log>>

\* SignatureAlgorithm::signer()(key, message)
SignerCall ==
    /\ pc = "build"
    /\ \E alg \in SignatureAlgorithms, key \in SignerKeys, message \in SignedMessages :
        Sent([op |-> "signer", alg |-> alg, key |-> key, message |-> message],
             Done(signer(alg, key, message), <<>>))

\* SignatureAlgorithm::validator()(key, message, signature) on that signature
ValidatorCall ==
    /\ pc = "sent"
    /\ call.op = "signer"
    /\ out.ok
    /\ \E key \in ValidatorKeys, message \in SignedMessages :
        /\ rcvArgs' = [op |-> "validator", alg |-> call.alg, key |-> key,
                       message |-> message, signature |-> out.v]
        /\ rcv' = validator(call.alg, key, message, out.v)
    /\ pc' = "received"
    /\ UNCHANGED <<msg, call, out, incoming, fwd, log>>

\* inputs of get_iv: `iv` strings of ASCII characters around the expected
\* size, strings of two-byte characters, values that are not strings
IvStrings ==
    {[t |-> "string", id |-> id, chars |-> n, len |-> n] :
        id \in 1..2, n \in {0, 12, IvSize - 1, IvSize, IvSize + 1, 2 * IvSize}}
    \cup {[t |-> "string", id |-> id, chars |-> IvSize, len |-> 2 * IvSize] : id \in 1..2}
    \cup {[t |-> "string", id |-> id, chars |-> IvSize \div 2, len |-> IvSize] : id \in 1..2}

\* JSON texts: objects with a string `iv`, with an `iv` that is a number and
\* without `iv`, values that are not objects, texts that are not JSON
JsonTexts ==
    {[kind |-> "object", iv |-> iv, dotted |-> d] :
        iv \in {None, Some([t |-> "number"])} \cup {Some(s) : s \in IvStrings},
        d \in BOOLEAN}
    \cup {[kind |-> k, iv |-> None, dotted |-> d] : k \in {"array", "invalid"},
                                                   d \in BOOLEAN}

\* the input as regular JSON, and as a compact form: base64url of the JSON,
\* a '.', and the other parts (which may be empty)
ReceivedInputs ==
    {[form |-> "json", json |-> j, rest |-> FALSE] : j \in JsonTexts}
    \cup {[form |-> "compact", json |-> j, rest |-> rest] : j \in JsonTexts,
                                                         rest \in BOOLEAN}

\* Message::get_iv(received): an associated function, it takes no message
GetIv ==
    /\ pc = "build"
    /\ \E received \in ReceivedInputs :
        /\ call' = [op |-> "get_iv", received |-> received]
        /\ out' = get_iv(received)
    /\ pc' = "sent"
    /\ UNCHANGED <<msg, incoming, rcvArgs, rcv, fwd, log>>

\* inputs of the cipher closures and of the name parsing
Nonces ==
    {[id |-> i, len |-> n] : i \in 1..2,
                             n \in {A256GCMNonce - 1,
                                    A256GCMNonce, A256GCMNonce + 1, A256CBCNonce,
                                    XC20PNonce - 1, XC20PNonce, XC20PNonce + 1}}
CipherKeys == CekOpts \cup {ShortKey, LongKey(1000 + DefaultSeed)}
Aads == {"protected", "other protected"}
AlgorithmNames ==
    {"ECDH-1PU+A256KW", "ECDH-1PU+XC20PKW", "ECDH-1PU+A256CBC", "ECDH-ES+A256KW",
     "ecdh-1pu+a256kw", "A256GCM", "XC20P", "A256CBC", "",
     "EdDSA", "ES256", "ES256K", "EdDsa", "es256", "ES256k", "ES384", "none"}

\* CryptoAlgorithm::encryptor()(nonce, key, message, aad)
EncryptorCall ==
    /\ pc = "build"
    /\ \E alg \in AllCryptoAlgorithms, nonce \in Nonces, key \in CipherKeys,
          message \in SignedMessages, aad \in Aads :
        /\ call' = [op |-> "encryptor", alg |-> alg, nonce |-> nonce, key |-> key,
                    message |-> message, aad |-> aad]
        /\ out' = encryptor(alg, nonce, key, message, aad)
    /\ pc' = "sent"
    /\ UNCHANGED <<msg, incoming, rcvArgs, rcv, fwd, log>>

\* CryptoAlgorithm::decrypter()(nonce, key, message, aad) on that ciphertext
DecrypterCall ==
    /\ pc = "sent"
    /\ call.op = "encryptor"
    /\ out.ok
    /\ \E alg \in AllCryptoAlgorithms, nonce \in Nonces, key \in CipherKeys, aad \in Aads :
        /\ rcvArgs' = [op |-> "decrypter", alg |-> alg, nonce |-> nonce, key |-> key,
                       message |-> out.v, aad |-> aad]
        /\ rcv' = decrypter(alg, nonce, key, out.v, aad)
    /\ pc' = "received"
    /\ UNCHANGED <<msg, call, out, incoming, fwd, log>>

\* CryptoAlgorithm::try_from(&name)
CryptoAlgorithmFromName ==
    /\ pc = "build"
    /\ \E name \in AlgorithmNames :
        /\ call' = [op |-> "CryptoAlgorithm::try_from", name |-> name]
        /\ out' = CryptoAlgorithmTryFrom(name)
    /\ pc' = "sent"
    /\ UNCHANGED <<msg, incoming, rcvArgs, rcv, fwd, log>>

\* SignatureAlgorithm::try_from(&name)
SignatureAlgorithmFromName ==
    /\ pc = "build"
    /\ \E name \in AlgorithmNames :
        /\ call' = [op |-> "SignatureAlgorithm::try_from", name |-> name]
        /\ out' = SignatureAlgorithmTryFrom(name)
    /\ pc' = "sent"
    /\ UNCHANGED <<msg, incoming, rcvArgs, rcv, fwd, log>>

\* the mediator hands the payload of the forward message it received to the
\* next hop (send_receive_mediated_encrypted_xc20p_json_test, lines 207-216)
ForwardPayload ==
    /\ pc = "received"
    /\ rcv.ok
    /\ rcv.v.typ = "DidCommForward"
    /\ rcv.v.body.t = "mediated"
    /\ fwd = None
    /\ fwd' = Some(rcv.v)
    /\ incoming' = rcv.v.body.payload
    /\ pc' = "forwarded"
    /\ UNCHANGED <<msg, call, out, rcvArgs, rcv, log>>

Next ==
    \/ To \/ From \/ Body \/ AsJwe \/ AsFlatJwe
    \/ Seal
    \/ Receive

Spec == Init /\ [][Next]_vars

NextSigned ==
    \/ To \/ Body \/ AsJwe \/ AsFlatJwe
    \/ SealSigned
    \/ Receive

SpecSigned == Init /\ [][NextSigned]_vars

NextRouted ==
    \/ To \/ From \/ Body \/ AsJwe \/ AsFlatJwe
    \/ RoutedBy
    \/ Receive
    \/ ForwardPayload

SpecRouted == Init /\ [][NextRouted]_vars

NextEnvelopes ==
    \/ To \/ From \/ Body \/ AsJwe \/ AsFlatJwe
    \/ Seal
    \/ SealSigned
    \/ RoutedBy
    \/ Receive
    \/ ForwardPayload

SpecEnvelopes == Init /\ [][NextEnvelopes]_vars

\* signed envelopes: sign, then verify or receive
NextJws ==
    \/ To \/ From \/ Body \/ Kid \/ AsJws \/ AsFlatJws
    \/ Sign
    \/ Verify
    \/ Receive

SpecJws == Init /\ [][NextJws]_vars

\* plain messages: as_raw_json, then receive
NextRaw ==
    \/ To \/ From \/ Body \/ Typ \/ AsFlatJwe \/ AsFlatJws
    \/ AsRawJson
    \/ Receive

SpecRaw == Init /\ [][NextRaw]_vars

\* content encryption: Message::encrypt, then Message::decrypt
NextCrypter ==
    \/ To \/ From \/ Body \/ AsJwe
    \/ Encrypt
    \/ Decrypt

SpecCrypter == Init /\ [][NextCrypter]_vars

\* envelopes of messages whose typ the builder may have set
NextTyp ==
    \/ To \/ Typ \/ AsJwe
    \/ Seal
    \/ SealSigned
    \/ RoutedBy

SpecTyp == Init /\ [][NextTyp]_vars

\* signature primitives: signer, then validator
NextSigner ==
    \/ SignerCall
    \/ ValidatorCall

SpecSigner == Init /\ [][NextSigner]_vars

\* the cipher closures and the parsing of algorithm names
NextCipher ==
    \/ EncryptorCall
    \/ DecrypterCall
    \/ CryptoAlgorithmFromName
    \/ SignatureAlgorithmFromName

SpecCipher == Init /\ [][NextCipher]_vars

\* the builder on its own
NextBuilder ==
    \/ To \/ From \/ Body \/ AsJwe

SpecBuilder == Init /\ [][NextBuilder]_vars

\* signed-then-encrypted envelopes as they are sealed
NextFrame ==
    \/ To \/ From \/ Body \/ AsJwe \/ AsFlatJwe
    \/ SealSigned

SpecFrame == Init /\ [][NextFrame]_vars

\* every kind of envelope, and what receive makes of it
NextReceive ==
    \/ To \/ Body \/ AsJwe
    \/ Seal
    \/ SealSigned
    \/ RoutedBy
    \/ Receive
    \/ ForwardPayload

SpecReceive == Init /\ [][NextReceive]_vars

\* IV extraction on its own
NextIv ==
    \/ GetIv

SpecIv == Init /\ [][NextIv]_vars

----------------------------------------------------------------------------
(* Properties *)

SenderPub == PublicKey(PrivKey(Sender))

\* the call that consumed msg was `op` and returned an envelope
Returned(op) == call.op = op /\ out.ok

\* private key p is the one of the i-th recipient key passed to the call
KeyOfRecipient(p, i) ==
    /\ call.recipient_public_keys.some
    /\ i \in DOMAIN call.recipient_public_keys.v
    /\ call.recipient_public_keys.v[i] = Some(PublicKey(p))

\* C1: every recipient of a sealed message, with its own private key and the
\* sender's public key, receives from the same envelope a message with the
\* body of the sealed message.
C1_EveryRecipientReceives ==
    Returned("seal") =>
        \A i \in 1..Len(msg.to) : \A p \in PartyKeys : \A vk \in VerifyingKeyOpts :
            KeyOfRecipient(p, i) =>
                LET r == receive(out.v, Some(p), Some(SenderPub), vk)
                IN  r.ok /\ r.v.body = msg.body

C1_Witness ==
    /\ pc = "received"
    /\ Returned("seal")
    /\ Len(msg.to) = 2
    /\ msg.body \in Bodies
    /\ KeyOfRecipient(PrivKey(1), 1)
    /\ KeyOfRecipient(PrivKey(2), 2)
    /\ rcvArgs.encryption_recipient_private_key = Some(PrivKey(2))
    /\ rcv.ok
    /\ rcv.v.body = msg.body


\* C2 (as stated): receive keeps unwrapping, so that the message it returns
\* for any envelope is the innermost plain message.
C2_ReturnsInnermost ==
    (pc = "received" /\ out.ok /\ fwd = None /\ rcv.ok) =>
        rcv.v.typ = "DidCommRaw" /\ rcv.v.body = msg.body

\* the mediator receives with its own key and the sender's public key
MediatorReceives ==
    /\ pc = "received"
    /\ fwd = None
    /\ rcvArgs.encryption_recipient_private_key = Some(PrivKey(Mediator))
    /\ rcvArgs.encryption_sender_public_key = Some(SenderPub)

\* C2 (amended): receive opens one encrypted layer and then verifies one
\* signed layer.  A signed-then-encrypted envelope comes back as its inner
\* plain message; a forward envelope comes back as the forward message, the
\* inner JWE still sealed in its payload.
C2_OneOpenOneVerify ==
    /\ (Returned("routed_by") /\ MediatorReceives) =>
            /\ rcv.ok
            /\ rcv.v.typ = "DidCommForward"
            /\ rcv.v.body.t = "mediated"
            /\ rcv.v.body.payload.kind = "jwe"
    /\ (Returned("seal_signed") /\ pc = "received" /\ rcv.ok) =>
            /\ rcv.v.typ = "DidCommRaw"
            /\ rcv.v.body = msg.body

C2_Witness ==
    /\ Returned("routed_by")
    /\ MediatorReceives
    /\ msg.body \in Bodies
    /\ rcv.ok
    /\ rcv.v.typ = "DidCommForward"
    /\ rcv.v.body # msg.body

\* C3 (as stated): the CEK of a seal call is fresh, no two seal calls of a
\* run log (and use) the same key.
C3_FreshCek ==
    \A i, j \in DOMAIN log : i # j => log[i].shared_key # log[j].shared_key

\* the key that encrypted the content of a JWE
ContentKey(jwe) == jwe.ciphertext.key

\* C4: a sealed envelope has one recipient entry per `to` entry, the i-th
\* addressed to to[i] and opened by the holder of the i-th key, and every
\* entry unwraps to the key that encrypted the content.
C4_RecipientPerTo ==
    Returned("seal") =>
        LET rs == JweRecipients(out.v)
        IN  /\ Len(rs) = Len(msg.to)
            /\ \A i \in 1..Len(msg.to) :
                /\ rs[i].header.kid = msg.to[i]
                /\ \E p \in PartyKeys :
                    /\ KeyOfRecipient(p, i)
                    /\ UnwrapKey(RecipientKek(p, SenderPub, rs[i].header.epk),
                                 rs[i].encrypted_key) = Some(ContentKey(out.v))

C4_Witness ==
    /\ pc = "sent"
    /\ Returned("seal")
    /\ msg.to = <<2, 1>>
    /\ KeyOfRecipient(PrivKey(1), 1)
    /\ KeyOfRecipient(PrivKey(2), 2)
    /\ Len(JweRecipients(out.v)) = 2

\* C5 (as stated): sealing a message with an empty `to` under a 32-byte key
\* fails with NoJweRecipient, whatever recipient keys are passed.
C5_EmptyToNoJweRecipient ==
    (call.op = "seal" /\ call.sender_private_key.len = KeySize /\ Len(msg.to) = 0) =>
        ~out.ok /\ out.err = "NoJweRecipient"

\* C6: a sender key that is not 32 bytes long makes seal fail with
\* InvalidKeySize, whatever the message and the recipient keys; no envelope.
C6_InvalidKeySize ==
    (call.op = "seal" /\ call.sender_private_key.len # KeySize) =>
        ~out.ok /\ out.err = "InvalidKeySize" /\ incoming = NoWire

C6_Witness ==
    /\ pc = "sent"
    /\ call.op = "seal"
    /\ call.sender_private_key = ShortKey
    /\ Len(msg.to) = 0
    /\ call.recipient_public_keys.some
    /\ Len(call.recipient_public_keys.v) = 2
    /\ out = Err("InvalidKeySize")

\* a JWE in the flattened serialization
IsFlatJwe(jwe) == ~jwe.recipients.some /\ jwe.flat.some

\* C7: a message marked flat JWE with more than one `to` is not sealed, and
\* every flattened JWE that seal returns has exactly one recipient.
C7_FlatJweSingleTo ==
    /\ (call.op = "seal" /\ msg.serialize_flat_jwe /\ Len(msg.to) > 1) =>
            ~out.ok /\ incoming = NoWire
    /\ (Returned("seal") /\ IsFlatJwe(out.v)) =>
            Len(msg.to) = 1 /\ Len(JweRecipients(out.v)) = 1

C7_Witness ==
    /\ pc = "sent"
    /\ call.op = "seal"
    /\ msg.serialize_flat_jwe
    /\ Len(msg.to) = 2
    /\ call.sender_private_key.len = KeySize
    /\ KeyOfRecipient(PrivKey(1), 1)
    /\ KeyOfRecipient(PrivKey(2), 2)
    /\ out = Err("Generic: flat JWE serialization only supports a single to")

\* C8: an explicit key list whose length differs from `to` makes seal fail
\* and return no envelope; a seal that succeeds with an explicit list had one
\* key per `to` entry.
C8_KeyCountMatchesTo ==
    /\ (/\ call.op = "seal"
        /\ call.recipient_public_keys.some
        /\ Len(call.recipient_public_keys.v) # Len(msg.to)) =>
            ~out.ok /\ incoming = NoWire
    /\ (Returned("seal") /\ call.recipient_public_keys.some) =>
            Len(call.recipient_public_keys.v) = Len(msg.to)

C8_Witness ==
    /\ pc = "sent"
    /\ call.op = "seal"
    /\ call.sender_private_key.len = KeySize
    /\ msg.alg.some
    /\ Len(msg.to) = 1
    /\ call.recipient_public_keys.some
    /\ Len(call.recipient_public_keys.v) = 2
    /\ \A i \in 1..2 : call.recipient_public_keys.v[i].some
    /\ out = Err("Generic: to and recipient_public_keys must have same length")

\* C9: the mediator opens the envelope of routed_by to a forward message
\* whose body is Mediated{next: to[0], payload: the sealed message}; the
\* recipient who receives that payload gets a message with the original body.
C9_RoutedBy ==
    /\ (Returned("routed_by") /\ MediatorReceives) =>
            /\ rcv.ok
            /\ rcv.v.typ = "DidCommForward"
            /\ rcv.v.body =
                MediatedBody(msg.to[1],
                             seal(msg, call.sender_private_key,
                                  call.recipient_public_keys).res.v)
    /\ (/\ Returned("routed_by")
        /\ pc = "received"
        /\ fwd.some
        /\ \E i \in 1..Len(msg.to) :
                /\ rcvArgs.encryption_recipient_private_key.some
                /\ KeyOfRecipient(rcvArgs.encryption_recipient_private_key.v, i)
        /\ rcvArgs.encryption_sender_public_key = Some(SenderPub)) =>
            rcv.ok /\ rcv.v.body = msg.body

C9_Witness ==
    /\ Returned("routed_by")
    /\ pc = "received"
    /\ fwd.some
    /\ fwd.v.body.next = 2
    /\ msg.to = <<2, 1>>
    /\ msg.body \in Bodies
    /\ rcvArgs.encryption_recipient_private_key = Some(PrivKey(2))
    /\ KeyOfRecipient(PrivKey(2), 1)
    /\ rcv.ok
    /\ rcv.v.body = msg.body

\* C10: receive of a seal_signed envelope with a recipient's private key, the
\* sender's public key and the verifying key of the signing key succeeds and
\* returns a message with the original body.
C10_SealSignedReceive ==
    (/\ Returned("seal_signed")
     /\ pc = "received"
     /\ \E i \in 1..Len(msg.to) :
            /\ rcvArgs.encryption_recipient_private_key.some
            /\ KeyOfRecipient(rcvArgs.encryption_recipient_private_key.v, i)
     /\ rcvArgs.encryption_sender_public_key = Some(SenderPub)
     /\ rcvArgs.signing_sender_public_key =
            Some(VerifyingKey(call.signing_sender_private_key))) =>
        rcv.ok /\ rcv.v.body = msg.body

C10_Witness ==
    /\ Returned("seal_signed")
    /\ pc = "received"
    /\ msg.body \in Bodies
    /\ rcvArgs.encryption_recipient_private_key = Some(PrivKey(1))
    /\ KeyOfRecipient(PrivKey(1), 1)
    /\ rcvArgs.signing_sender_public_key =
            Some(VerifyingKey(call.signing_sender_private_key))
    /\ rcv.ok
    /\ rcv.v.body = msg.body


----------------------------------------------------------------------------
(* Signed envelopes *)

\* the verifying key of the key the envelope was signed with
SignerVerifyingKey == VerifyingKey(call.signing_sender_private_key)

\* the last call was verify with key vk
Verified(vk) == pc = "received" /\ rcvArgs.op = "verify" /\ rcvArgs.key = vk

\* the last call was receive with the verifying key option vk
ReceivedWith(vk) ==
    pc = "received" /\ rcvArgs.op = "receive" /\ rcvArgs.signing_sender_public_key = vk

\* C11 (as stated): verify and receive of a signed envelope fail whenever the
\* verifying key supplied is not the one of the signing key, or none is
\* supplied.
C11_NoKeyOrWrongKeyFails ==
    Returned("sign") =>
        /\ \A vk \in VerifyingKeys :
            (Verified(vk) /\ vk # SignerVerifyingKey) => ~rcv.ok
        /\ \A vk \in VerifyingKeyOpts :
            (ReceivedWith(vk) /\ vk # Some(SignerVerifyingKey)) => ~rcv.ok

\* C11 (amended): a verifying key that is supplied and does not match makes
\* verify and receive fail with JwsParseError; when receive is given no
\* verifying key it verifies with the key the `kid` of the JWS header names,
\* and fails exactly when the header names no key or a key that does not
\* match.
C11_WrongKeyFails ==
    Returned("sign") =>
        /\ \A vk \in VerifyingKeys :
            (Verified(vk) /\ vk # SignerVerifyingKey) =>
                rcv = Err("JwsParseError")
        /\ \A vk \in VerifyingKeys :
            (ReceivedWith(Some(vk)) /\ vk # SignerVerifyingKey) =>
                rcv = Err("JwsParseError")
        /\ ReceivedWith(None) =>
                /\ rcv.ok <=> msg.kid = Some(HexKid(SignerVerifyingKey))
                /\ ~rcv.ok => rcv = Err("JwsParseError")

C11_Witness ==
    /\ Returned("sign")
    /\ ReceivedWith(None)
    /\ msg.kid = Some(HexKid(SignerVerifyingKey))
    /\ msg.body \in Bodies
    /\ rcv.ok
    /\ rcv.v.body = msg.body

\* C15: a signed envelope has the signed typ in its protected header and the
\* plain typ inside its payload, and the message receive returns for it has
\* the plain typ.
C15_SignedTyp ==
    Returned("sign") =>
        /\ \A i \in DOMAIN JwsSignatures(out.v) :
                JwsSignatures(out.v)[i].protected.typ = "DidCommJws"
        /\ JwsSignatures(out.v) # <<>>
        /\ out.v.payload.typ = "DidCommRaw"
        /\ (pc = "received" /\ rcvArgs.op = "receive" /\ rcv.ok) =>
                rcv.v.typ = "DidCommRaw"

C15_Witness ==
    /\ Returned("sign")
    /\ ReceivedWith(Some(SignerVerifyingKey))
    /\ JwsSignatures(out.v)[1].protected.typ = "DidCommJws"
    /\ rcv.ok
    /\ rcv.v.typ = "DidCommRaw"

\* C18: sign emits the flattened form for a message configured with
\* as_flat_jws and the general form for one configured with as_jws only;
\* verify and receive accept both forms and decode the signed message.
C18_FlatAndGeneralJws ==
    /\ \A alg \in SignatureAlgorithms :
            LET flat == Message_sign(as_flat_jws(msg, alg), SenderSignKey)
                general == Message_sign(as_jws(msg, alg), SenderSignKey)
            IN  /\ flat.ok
                /\ flat.v.signature.some /\ flat.v.protected.some
                /\ ~flat.v.signatures.some
                /\ general.ok
                /\ ~msg.serialize_flat_jws =>
                        /\ general.v.signatures.some
                        /\ Len(general.v.signatures.v) = 1
                        /\ ~general.v.signature.some
    /\ Returned("sign") =>
        /\ msg.serialize_flat_jws =>
                out.v.signature.some /\ out.v.protected.some /\ ~out.v.signatures.some
        /\ ~msg.serialize_flat_jws =>
                out.v.signatures.some /\ Len(out.v.signatures.v) = 1
                /\ ~out.v.signature.some
        /\ (Verified(SignerVerifyingKey) \/ ReceivedWith(Some(SignerVerifyingKey))) =>
                rcv = Ok(Deserialize(Serialize(msg)))

C18_Witness ==
    /\ Returned("sign")
    /\ msg.serialize_flat_jws
    /\ out.v.signature.some
    /\ Verified(SignerVerifyingKey)
    /\ rcv.ok
    /\ rcv.v.body = msg.body
    /\ msg.body \in Bodies


\* C12: for every algorithm, message and key pair, the validator accepts
\* the signer's signature under the verifying key of the pair and reports
\* no valid signature under any other verifying key.
C12_SignerValidator ==
    (pc = "received" /\ call.op = "signer" /\ rcvArgs.op = "validator") =>
        /\ (rcvArgs.key = VerifyingKey(call.key) /\ rcvArgs.message = call.message) =>
                rcv = Ok(TRUE)
        /\ rcvArgs.key # VerifyingKey(call.key) => ~(rcv.ok /\ rcv.v)

C12_Witness ==
    /\ pc = "received"
    /\ call.op = "signer"
    /\ call.alg = "ES256K"
    /\ call.key = SignKey(1)
    /\ rcvArgs.op = "validator"
    /\ rcvArgs.key = VerifyingKey(SignKey(1))
    /\ rcvArgs.message = call.message
    /\ rcv = Ok(TRUE)

\* C13: decrypting what encrypt produced, with the same algorithm and the
\* same 32-byte key, yields a message with the body and the JWM header of
\* the encrypted message, for XC20P and for A256GCM.
C13_EncryptDecrypt ==
    (/\ pc = "received"
     /\ call.op = "encrypt"
     /\ rcvArgs.op = "decrypt"
     /\ rcvArgs.alg = call.alg
     /\ rcvArgs.key = call.key) =>
        /\ out.ok
        /\ rcv.ok
        /\ rcv.v.body = msg.body
        /\ rcv.v.typ = msg.typ
        /\ rcv.v.alg = msg.alg
        /\ rcv.v.enc = msg.enc
        /\ rcv.v.kid = msg.kid

C13_Witness ==
    /\ pc = "received"
    /\ call.op = "encrypt"
    /\ call.alg = "A256GCM"
    /\ rcvArgs.op = "decrypt"
    /\ rcvArgs.alg = "A256GCM"
    /\ rcvArgs.key = call.key
    /\ msg.body \in Bodies
    /\ msg.kid.some
    /\ rcv.ok
    /\ rcv.v.body = msg.body

\* C14 (as stated): the protected header of every envelope of seal and of
\* seal_signed has the encrypted typ; the one of every envelope of routed_by
\* has the forward typ.
C14_ProtectedTyp ==
    /\ Returned("seal") => out.v.protected.typ = "DidCommJwe"
    /\ Returned("seal_signed") => out.v.protected.typ = "DidCommJwe"
    /\ Returned("routed_by") => out.v.protected.typ = "DidCommForward"

\* C14 (amended): seal writes the encrypted typ unless the typ of the
\* message it seals is the forward typ, which it keeps (routed_by gets the
\* typ of its envelope this way); seal_signed always writes the encrypted
\* typ and routed_by always the forward typ.
C14_ProtectedTypOfSealed ==
    /\ Returned("seal") =>
            out.v.protected.typ =
                IF msg.typ = "DidCommForward" THEN "DidCommForward" ELSE "DidCommJwe"
    /\ Returned("seal_signed") => out.v.protected.typ = "DidCommJwe"
    /\ Returned("routed_by") => out.v.protected.typ = "DidCommForward"

C14_Witness ==
    /\ Returned("routed_by")
    /\ pc = "sent"
    /\ out.v.kind = "jwe"
    /\ out.v.protected.typ = "DidCommForward"
    /\ msg.typ = "DidCommRaw"
    /\ Len(msg.to) = 2


\* C16 (as stated): after routed_by has wrapped a message for one mediator,
\* routed_by can be applied again to add a further hop.
C16_RoutedByAgain ==
    Returned("routed_by") => ENABLED RoutedBy

\* the message is not set up for the sealing of routed_by
NotSetUp ==
    \/ ~get_crypter_from_header(msg).ok
    \/ Len(msg.to) = 0
    \/ call.sender_private_key.len # KeySize
    \/ /\ call.recipient_public_keys.some
       /\ Len(call.recipient_public_keys.v) # Len(msg.to)

\* C17 (as stated): routed_by on a message that is not set up for sealing
\* returns an error to its caller: it does not abort and returns no envelope.
C17_RoutedByReturnsError ==
    (call.op = "routed_by" /\ NotSetUp) =>
        ~out.ok /\ out # Abort /\ incoming = NoWire


----------------------------------------------------------------------------
(* Plain messages *)

\* the last call was receive with no key at all
ReceivedWithoutKeys ==
    /\ ReceivedWith(None)
    /\ rcvArgs.encryption_recipient_private_key = None
    /\ rcvArgs.encryption_sender_public_key = None

\* C19 (as stated): receive of the raw JSON of a message, with no keys,
\* returns a message equal to the one serialized.
C19_RawRoundTrip ==
    (Returned("as_raw_json") /\ ReceivedWithoutKeys) => rcv = Ok(msg)

\* C19 (amended): receive of the raw JSON of a message whose typ is plain,
\* with no keys, returns the message with every serialized member as it
\* was and the two serialization flags, which are not serialized, cleared;
\* it equals the original when neither flag was set.
C19_RawRoundTripButFlags ==
    (Returned("as_raw_json") /\ ReceivedWithoutKeys /\ msg.typ = "DidCommRaw") =>
        /\ rcv = Ok([msg EXCEPT !.serialize_flat_jwe = FALSE,
                                !.serialize_flat_jws = FALSE])
        /\ (~msg.serialize_flat_jwe /\ ~msg.serialize_flat_jws) => rcv = Ok(msg)

C19_Witness ==
    /\ Returned("as_raw_json")
    /\ ReceivedWithoutKeys
    /\ msg.typ = "DidCommRaw"
    /\ msg.from.some
    /\ Len(msg.to) = 2
    /\ msg.body \in Bodies
    /\ msg.serialize_flat_jwe
    /\ rcv.ok
    /\ rcv.v # msg
    /\ rcv.v.body = msg.body

----------------------------------------------------------------------------
(* IV extraction *)

\* C21 (as stated): get_iv returns the bytes of `iv` for every JSON object
\* with a top-level string `iv` of 24 characters, given as regular JSON or
\* as the header of a compact form, and returns an error when the `iv` of
\* the object has another length, is not a string or is missing.  (Read for
\* an `iv` of URL-safe base64 characters, one byte each.)
C21_GetIv ==
    (/\ call.op = "get_iv"
     /\ call.received.json.kind = "object"
     /\ (call.received.json.iv.some /\ call.received.json.iv.v.t = "string") =>
            call.received.json.iv.v.chars = call.received.json.iv.v.len) =>
        LET iv == call.received.json.iv
        IN  IF iv.some /\ iv.v.t = "string" /\ iv.v.chars = IvSize
            THEN out = Ok([id |-> iv.v.id, len |-> IvSize])
            ELSE ~out.ok

----------------------------------------------------------------------------
(* The cipher closures *)

\* the nonce has the size the algorithm works with
NonceFits(alg, nonce) ==
    nonce.len = CASE alg = "XC20P" -> XC20PNonce
                  [] alg = "A256GCM" -> A256GCMNonce
                  [] alg = "A256CBC" -> A256CBCNonce

\* the last call was the decrypter closure
Decrypted == pc = "received" /\ rcvArgs.op = "decrypter"

\* C22 (as stated): for every content algorithm, the encryptor and the
\* decrypter closure called with a key that is not 32 bytes long return the
\* InvalidKeySize error as a value.
C22_InvalidKeySizeReturned ==
    /\ (/\ call.op = "encryptor"
        /\ call.key.len # KeySize
        /\ NonceFits(call.alg, call.nonce)) =>
            out = Err("InvalidKeySize")
    /\ (/\ Decrypted
        /\ rcvArgs.key.len # KeySize
        /\ NonceFits(rcvArgs.alg, rcvArgs.nonce)) =>
            rcv = Err("InvalidKeySize")

\* C23: the XC20P closures return PlugCryptoFailure for every nonce shorter
\* than 24 bytes and the A256GCM closures for every nonce shorter than 12
\* bytes, whatever the key, the message and the AAD: the test precedes every
\* use of them.
C23_ShortNonce ==
    /\ (/\ call.op = "encryptor"
        /\ \/ call.alg = "XC20P" /\ call.nonce.len < XC20PNonce
           \/ call.alg = "A256GCM" /\ call.nonce.len < A256GCMNonce) =>
            out = Err("PlugCryptoFailure")
    /\ (/\ Decrypted
        /\ \/ rcvArgs.alg = "XC20P" /\ rcvArgs.nonce.len < XC20PNonce
           \/ rcvArgs.alg = "A256GCM" /\ rcvArgs.nonce.len < A256GCMNonce) =>
            rcv = Err("PlugCryptoFailure")

C23_Witness ==
    /\ Decrypted
    /\ call.alg = "A256GCM"
    /\ rcvArgs.alg = "XC20P"
    /\ rcvArgs.nonce.len = XC20PNonce - 1
    /\ rcvArgs.key = ShortKey
    /\ rcv = Err("PlugCryptoFailure")

\* C26: A256GCM reads the first 12 bytes of the nonce only: with a nonce of
\* 12 bytes or more the encryptor and the decrypter return what they return
\* with its first 12 bytes, and a ciphertext made with one nonce is opened
\* with any nonce that has the same first 12 bytes.
C26_GcmNoncePrefix ==
    /\ (/\ call.op = "encryptor"
        /\ call.alg = "A256GCM"
        /\ call.nonce.len >= A256GCMNonce) =>
            out = encryptor("A256GCM", Prefix(call.nonce, A256GCMNonce), call.key,
                            call.message, call.aad)
    /\ (/\ Decrypted
        /\ rcvArgs.alg = "A256GCM"
        /\ rcvArgs.nonce.len >= A256GCMNonce) =>
            /\ rcv = decrypter("A256GCM", Prefix(rcvArgs.nonce, A256GCMNonce),
                               rcvArgs.key, rcvArgs.message, rcvArgs.aad)
            /\ (/\ call.alg = "A256GCM"
                /\ Prefix(call.nonce, A256GCMNonce) = Prefix(rcvArgs.nonce, A256GCMNonce)
                /\ rcvArgs.key = call.key
                /\ rcvArgs.aad = call.aad) =>
                    rcv = Ok(call.message)

C26_Witness ==
    /\ Decrypted
    /\ call.alg = "A256GCM"
    /\ call.nonce = [id |-> 2, len |-> XC20PNonce]
    /\ rcvArgs.alg = "A256GCM"
    /\ rcvArgs.nonce = [id |-> 2, len |-> A256GCMNonce]
    /\ rcvArgs.key = call.key
    /\ rcvArgs.aad = call.aad
    /\ call.message.body \in Bodies
    /\ rcv = Ok(call.message)

\* C27 (as stated): with a 32-byte key the XC20P closures return a result,
\* Ok or Err, for a nonce of any length; a nonce longer than 24 bytes does
\* not make them abort.
C27_LongNonceReturns ==
    /\ (/\ call.op = "encryptor"
        /\ call.alg = "XC20P"
        /\ call.key.len = KeySize) =>
            out # Abort
    /\ (/\ Decrypted
        /\ rcvArgs.alg = "XC20P"
        /\ rcvArgs.key.len = KeySize) =>
            rcv # Abort

----------------------------------------------------------------------------
(* Algorithm names *)

\* C24: ECDH-1PU+A256KW is parsed to A256GCM, ECDH-1PU+XC20PKW to XC20P and
\* every other name fails with JweParseError; EdDSA, ES256 and ES256K are
\* parsed to their signature algorithms and every other name fails with
\* JwsParseError; every content algorithm the parsing returns has a working
\* encryptor and decrypter: what the encryptor seals under a 32-byte key and
\* a nonce of the algorithm's size, the decrypter opens.
C24_ExactNames ==
    /\ call.op = "CryptoAlgorithm::try_from" =>
            /\ call.name = "ECDH-1PU+A256KW" => out = Ok("A256GCM")
            /\ call.name = "ECDH-1PU+XC20PKW" => out = Ok("XC20P")
            /\ call.name \notin {"ECDH-1PU+A256KW", "ECDH-1PU+XC20PKW"} =>
                    out = Err("JweParseError")
            /\ out.ok =>
                \A nonce \in Nonces, key \in CipherKeys, message \in SignedMessages,
                   aad \in Aads :
                    (NonceFits(out.v, nonce) /\ key.len = KeySize) =>
                        /\ encryptor(out.v, nonce, key, message, aad).ok
                        /\ decrypter(out.v, nonce, key,
                                     encryptor(out.v, nonce, key, message, aad).v,
                                     aad) = Ok(message)
    /\ call.op = "SignatureAlgorithm::try_from" =>
            /\ call.name \in {"EdDSA", "ES256", "ES256K"} => out = Ok(call.name)
            /\ call.name \notin {"EdDSA", "ES256", "ES256K"} =>
                    out = Err("JwsParseError")

C24_Witness ==
    /\ pc = "sent"
    /\ call.op = "CryptoAlgorithm::try_from"
    /\ call.name = "ECDH-1PU+XC20PKW"
    /\ out = Ok("XC20P")
    /\ \E nonce \in Nonces, key \in CipherKeys, message \in SignedMessages :
            decrypter(out.v, nonce, key,
                      encryptor(out.v, nonce, key, message, "protected").v,
                      "protected") = Ok(message)

----------------------------------------------------------------------------
(* The `to` builder *)

\* the entries of a list that are not the empty string, in their order
NonEmpty(s) == SelectSeq(s, LAMBDA d : d # EmptyDid)

\* C25: once `to` has been called the list has no empty string, and a `to`
\* call, and a second one after it, leave the list as the non-empty entries
\* it had followed by the non-empty arguments of the calls, in call order and
\* argument order, duplicates kept; nothing an earlier call added is dropped.
C25_ToAppends ==
    /\ msg.to = new.to \/ \A i \in DOMAIN msg.to : msg.to[i] # EmptyDid
    /\ pc = "build" =>
        \A first \in ToArgs :
            LET once == to(msg, first)
            IN  /\ once.to = NonEmpty(msg.to) \o NonEmpty(first)
                /\ \A second \in ToArgs :
                    LET twice == to(once, second).to
                    IN  /\ twice = once.to \o NonEmpty(second)
                        /\ \A i \in DOMAIN twice : twice[i] # EmptyDid

C25_Witness ==
    /\ pc = "build"
    /\ msg.to = <<1, 1>>
    /\ to(to(msg, <<EmptyDid, 2>>), <<1, EmptyDid>>).to = <<1, 1, 2, 1>>

----------------------------------------------------------------------------
(* The content encryption key *)

\* C28 (as stated): the CEK of a seal call is not written to the process
\* log, and the envelope carries it only wrapped for each recipient and as
\* the key of the content encryption, never as a member in the clear.
C28_CekNotLogged ==
    call.op = "seal" =>
        /\ \A i \in DOMAIN log : log[i].shared_key # seal_cek
        /\ out.ok =>
            /\ out.v.iv # seal_cek
            /\ \A i \in DOMAIN JweRecipients(out.v) :
                    JweRecipients(out.v)[i].encrypted_key.key = ContentKey(out.v)

----------------------------------------------------------------------------
(* The steps of receive *)

\* C29: receive ends after one JWE step, then one JWS step, then one parse:
\* an error of the JWE step or of the JWS step is the result of receive, which
\* then carries no message; otherwise the result is the parse of what is left
\* after the two steps, and a JWE that is left inside (the payload of a
\* forward message) is not opened.
C29_ReceiveSteps ==
    (pc = "received" /\ rcvArgs.op = "receive") =>
        LET opened == receive_open(rcvArgs.incoming,
                                   rcvArgs.encryption_recipient_private_key,
                                   rcvArgs.encryption_sender_public_key)
            verified == receive_verify(opened.v, rcvArgs.signing_sender_public_key)
        IN  /\ ~opened.ok => rcv = opened
            /\ (opened.ok /\ ~verified.ok) => rcv = verified
            /\ (opened.ok /\ verified.ok) => rcv = receive_parse(verified.v)
            /\ ~rcv.ok => DOMAIN rcv = {"ok", "err"}
            /\ (rcv.ok /\ rcv.v.body.t = "mediated") => rcv.v.body.payload.kind = "jwe"
            /\ (rcv.ok /\ rcvArgs.incoming.kind = "jwe") =>
                    rcv.v.typ # "DidCommJwe" /\ rcv.v.body.t # "jws"

C29_Witness ==
    /\ pc = "received"
    /\ rcvArgs.op = "receive"
    /\ Returned("seal_signed")
    /\ rcvArgs.incoming.kind = "jwe"
    /\ rcvArgs.incoming.ciphertext.message.typ = "DidCommJws"
    /\ rcvArgs.incoming.ciphertext.message.body.t = "jws"
    /\ rcv.ok
    /\ rcv.v.typ = "DidCommRaw"
    /\ rcv.v.body = msg.body

----------------------------------------------------------------------------
(* The frame of seal_signed *)

\* the message that was encrypted into a JWE
SealedMessage(jwe) == Deserialize(jwe.ciphertext.message)

\* C30: the message seal_signed seals is the original with two changes, its
\* body is the JWS of the original and its typ the signed typ: it keeps the
\* encryption header (alg, enc, kid), the DIDComm header (from, to), the
\* attachments and the flat JWE flag of the original, and the signature
\* algorithm is in the header of the JWS only.
C30_SealSignedFrame ==
    Returned("seal_signed") =>
        LET outer == SealedMessage(out.v)
            signed == Message_sign(as_jws(msg, call.signing_algorithm),
                                   call.signing_sender_private_key)
        IN  /\ outer.alg = msg.alg /\ outer.enc = msg.enc /\ outer.kid = msg.kid
            /\ out.v.protected.alg = msg.alg
            /\ out.v.protected.enc = msg.enc
            /\ out.v.protected.kid = msg.kid
            /\ outer.from = msg.from /\ outer.to = msg.to
            /\ outer.attachments = msg.attachments
            /\ IsFlatJwe(out.v) <=> msg.serialize_flat_jwe
            /\ outer.typ = "DidCommJws"
            /\ signed.ok
            /\ outer.body = JwsBody(signed.v)
            /\ \A i \in DOMAIN JwsSignatures(outer.body.jws) :
                    JwsSignatures(outer.body.jws)[i].protected.alg =
                        Some(call.signing_algorithm)
            /\ outer.body.jws.payload.alg = Some(call.signing_algorithm)
            /\ outer.alg # Some(call.signing_algorithm)
            /\ out.v.protected.alg # Some(call.signing_algorithm)

C30_Witness ==
    /\ Returned("seal_signed")
    /\ pc = "sent"
    /\ msg.kid.some
    /\ msg.from.some
    /\ msg.serialize_flat_jwe
    /\ msg.body \in Bodies
    /\ call.signing_algorithm = "ES256K"
    /\ SealedMessage(out.v).from = msg.from
    /\ SealedMessage(out.v).kid = msg.kid
    /\ SealedMessage(out.v).body.t = "jws"
    /\ SealedMessage(out.v).body.jws.payload.body = msg.body
    /\ IsFlatJwe(out.v)

====
